---- MODULE Spec2Model ----
(***************************************************************************)
(* High-utility itemset mining: the exhaustive miner (src/ehmin.py), the   *)
(* sign-aware branch-and-bound miner (src/ehmun.py) and the top-k miner    *)
(* (src/tkn.py), each modelled as the state machine of one run() call over *)
(* an in-memory transaction database; and the genetic top-k search         *)
(* (src/tkhuim_ga.py) as the state machine of one tkhuim_ga() call.        *)
(***************************************************************************)
EXTENDS Integers, Sequences, FiniteSets, TLC

VARIABLES
    algo,                   \* which class the run object is an instance of
    pc,                     \* position inside run()
    database,               \* self.database / self.dataset
    min_util,               \* EHMIN.min_util, TKN.min_util
    global_lists,           \* EHMIN.global_lists (insertion-ordered dict)
    results,                \* EHMIN.results
    processed_patterns,     \* local of EHMIN.mine_high_utility_patterns
    length,                 \* loop variable of EHMIN.mine_high_utility_patterns
    set_order,              \* the order in which this process iterates a set of items
    min_utility,            \* EMHUNAlgorithm.min_utility
    high_utility_itemsets,  \* EMHUNAlgorithm.high_utility_itemsets
    visited_itemsets,       \* EMHUNAlgorithm.visited_itemsets, TKN.visited_itemsets
    classes,                \* rho, delta, eta of EMHUNAlgorithm.run
    secondary_X,            \* local of EMHUNAlgorithm.run
    sorted_secondary,       \* EMHUNAlgorithm.sorted_secondary
    sorted_eta,             \* EMHUNAlgorithm.sorted_eta
    primary_X,              \* local of EMHUNAlgorithm.run
    stack,                  \* the call stack of the recursive search
    k,                      \* TKN.k
    ptwu,                   \* TKN.ptwu (insertion-ordered dict)
    secondary_items,        \* TKN.secondary_items
    li_structure,           \* TKN.li_structure (insertion-ordered dict)
    priority_queue,         \* TKN.priority_queue
    population_size,        \* parameter of tkhuim_ga
    generations,            \* parameter of tkhuim_ga
    generation,             \* number of completed iterations of the generation loop
    population,             \* local of tkhuim_ga
    unique_solutions,       \* local of tkhuim_ga
    top_solutions,          \* local of tkhuim_ga, returned
    top_fitness             \* local of tkhuim_ga, returned

commonVars == <<algo, database>>
ehminVars == <<global_lists, results, processed_patterns, length>>
emhunVars == <<set_order, min_utility, high_utility_itemsets, classes, secondary_X,
               sorted_secondary, sorted_eta, primary_X>>

tknVars == <<k, ptwu, secondary_items, li_structure, priority_queue>>

gaVars == <<population_size, generations, generation, population, unique_solutions,
            top_solutions, top_fitness>>

vars == <<algo, pc, database, min_util, global_lists, results,
          processed_patterns, length, set_order, min_utility,
          high_utility_itemsets, visited_itemsets, classes, secondary_X,
          sorted_secondary, sorted_eta, primary_X, stack, k, ptwu,
          secondary_items, li_structure, priority_queue, population_size,
          generations, generation, population, unique_solutions, top_solutions,
          top_fitness>>

\* what a run of one class leaves alone
notEhmin == <<emhunVars, tknVars, gaVars, visited_itemsets, stack>>
notEmhun == <<ehminVars, tknVars, gaVars, min_util>>
notTkn == <<ehminVars, emhunVars, gaVars>>
notGa == <<ehminVars, emhunVars, tknVars, min_util, visited_itemsets, stack>>

----------------------------------------------------------------------------
(* Bounds of the explored inputs.                                          *)

NumItems == 3
MaxTransactions == 2
MaxQuantity == 2
MaxProfit == 1
MaxLoss == 1
MaxWeight == 4
MaxMinUtil == 2
MaxK == 3
MaxNegK == 1
MaxSearchWeight == 3
MaxGaWeight == 2
MaxPopulationSize == 3
MaxGenerations == 2

Items == 1..NumItems
Quantities == 1..MaxQuantity
Profits == (0 - MaxLoss)..MaxProfit
MinUtils == 0..MaxMinUtil
Ks == 1..MaxK
NonPositiveKs == (0 - MaxNegK)..0
PopulationSizes == 1..MaxPopulationSize
Generations == 1..MaxGenerations

----------------------------------------------------------------------------
(* Generic sequence helpers (Python list/tuple primitives).                *)

Range(s) == {s[i] : i \in DOMAIN s}

RECURSIVE SumSeq(_)
SumSeq(s) == IF s = <<>> THEN 0 ELSE Head(s) + SumSeq(Tail(s))

\* list.index(item): position of the first occurrence
IndexOf(s, x) == CHOOSE i \in DOMAIN s : s[i] = x /\ \A j \in 1..(i - 1) : s[j] # x

\* Python's ordering of tuples: lexicographic, a proper prefix first
RECURSIVE TupleLess(_, _)
TupleLess(a, b) ==
    IF a = <<>> THEN b # <<>>
    ELSE IF b = <<>> THEN FALSE
    ELSE IF Head(a) # Head(b) THEN Head(a) < Head(b)
    ELSE TupleLess(Tail(a), Tail(b))

\* sorted(S) of a set of items, as a tuple
RECURSIVE SortedTuple(_)
SortedTuple(S) ==
    IF S = {} THEN <<>>
    ELSE LET m == CHOOSE x \in S : \A y \in S : x <= y
         IN <<m>> \o SortedTuple(S \ {m})

----------------------------------------------------------------------------
(* The input databases: a list of transactions, each three parallel lists. *)

InjectiveSeqs ==
    {s \in UNION {[1..n -> Items] : n \in 1..NumItems} :
        \A i, j \in DOMAIN s : i # j => s[i] # s[j]}

Transactions ==
    UNION {{[items |-> s, quantities |-> q, profit |-> p] :
                q \in [DOMAIN s -> Quantities], p \in [DOMAIN s -> Profits]} :
           s \in InjectiveSeqs}

Weight(t) == SumSeq(t.quantities)

RECURSIVE DatabasesUpTo(_, _)
DatabasesUpTo(n, w) ==
    IF n = 0 THEN {<<>>}
    ELSE {<<>>} \cup
         UNION {{<<t>> \o d : d \in DatabasesUpTo(n - 1, w - Weight(t))} :
                t \in {u \in Transactions : Weight(u) <= w}}

Databases == DatabasesUpTo(MaxTransactions, MaxWeight)

\* the databases of the runs followed to their end under fairness
SearchDatabases == DatabasesUpTo(MaxTransactions, MaxSearchWeight)

\* the databases of the genetic search, run under every outcome of its random choices
GaDatabases == DatabasesUpTo(MaxTransactions, MaxGaWeight)


----------------------------------------------------------------------------
(* Reference semantics of the specification: the utility of an itemset Y   *)
(* is the sum, over the transactions containing all of Y, of               *)
(* quantity * profit of Y's members.                                       *)

TransactionUtility(t, Y) ==
    SumSeq([i \in DOMAIN t.items |->
              IF t.items[i] \in Y THEN t.quantities[i] * t.profit[i] ELSE 0])

ExactUtility(db, Y) ==
    SumSeq([n \in DOMAIN db |->
              IF Y \subseteq Range(db[n].items)
              THEN TransactionUtility(db[n], Y) ELSE 0])

ItemsOf(db) == UNION {Range(db[n].items) : n \in DOMAIN db}

NonEmptyItemsets(db) == (SUBSET ItemsOf(db)) \ {{}}

----------------------------------------------------------------------------
(* EHMIN (src/ehmin.py)                                                    *)

KeySet(gl) == {gl[i].item : i \in DOMAIN gl}

KeyList(gl) == [i \in DOMAIN gl |-> gl[i].item]

RECURSIVE load_transaction(_, _, _)
load_transaction(gl, t, i) ==
    IF i > Len(t.items) \/ i > Len(t.profit) THEN gl
    ELSE load_transaction(
             IF t.items[i] \in KeySet(gl) THEN gl
             ELSE Append(gl, [item |-> t.items[i], profit |-> t.profit[i],
                              transactions |-> <<>>]),
             t, i + 1)

RECURSIVE load_external_utility(_, _, _)
load_external_utility(gl, db, n) ==
    IF n > Len(db) THEN gl
    ELSE load_external_utility(load_transaction(gl, db[n], 1), db, n + 1)

RECURSIVE scan_transaction(_, _, _, _)
scan_transaction(gl, t, tid, i) ==
    IF i > Len(t.items) THEN gl
    ELSE scan_transaction(
             [g \in DOMAIN gl |->
                 IF gl[g].item = t.items[i]
                 THEN [gl[g] EXCEPT !.transactions =
                          Append(@, [tid |-> tid, quantity |-> t.quantities[i],
                                     utility |-> t.quantities[i] * t.profit[i]])]
                 ELSE gl[g]],
             t, tid, i + 1)

RECURSIVE first_scan(_, _, _)
first_scan(gl, db, n) ==
    IF n > Len(db) THEN gl
    ELSE first_scan(scan_transaction(gl, db[n], n, 1), db, n + 1)

\* the entries prune_low_utility_items builds for an item missing from global_lists
OccurrencesOf(t, tid, item) ==
    LET hits == SelectSeq([i \in DOMAIN t.items |-> i], LAMBDA i : t.items[i] = item)
    IN [h \in DOMAIN hits |->
           [tid |-> tid, quantity |-> t.quantities[hits[h]],
            utility |-> t.quantities[hits[h]] * t.profit[hits[h]]]]

RECURSIVE prune_transaction(_, _, _, _)
prune_transaction(gl, t, tid, i) ==
    IF i > Len(t.items) THEN gl
    ELSE prune_transaction(
             IF t.items[i] \in KeySet(gl) THEN gl
             ELSE Append(gl, [item |-> t.items[i], profit |-> 0,
                              transactions |-> OccurrencesOf(t, tid, t.items[i])]),
             t, tid, i + 1)

RECURSIVE prune_low_utility_items(_, _, _)
prune_low_utility_items(gl, db, n) ==
    IF n > Len(db) THEN gl
    ELSE prune_low_utility_items(prune_transaction(gl, db[n], n, 1), db, n + 1)

calculate_pattern_utility(db, pattern) ==
    SumSeq([n \in DOMAIN db |->
              IF \A i \in DOMAIN pattern : pattern[i] \in Range(db[n].items)
              THEN SumSeq([i \in DOMAIN pattern |->
                             LET ix == IndexOf(db[n].items, pattern[i])
                             IN db[n].quantities[ix] * db[n].profit[ix]])
              ELSE 0])

RECURSIVE generate_combinations(_, _)
generate_combinations(items, len) ==
    IF len = 0 THEN << <<>> >>
    ELSE IF items = <<>> THEN <<>>
    ELSE LET rests == generate_combinations(Tail(items), len - 1)
             with_first == [r \in DOMAIN rests |-> <<Head(items)>> \o rests[r]]
             without_first == generate_combinations(Tail(items), len)
         IN with_first \o without_first

\* mutant of MeetsMinUtil: a strict comparison
MeetsMinUtil_Strict(utility, threshold) == utility > threshold

\* the acceptance test of mine_high_utility_patterns
MeetsMinUtil(utility, threshold) == utility >= threshold

\* the inner loop of mine_high_utility_patterns over the combinations of one length:
\* st = [results, processed_patterns]
RECURSIVE mine_combinations(_, _, _, _, _)
mine_combinations(st, combos, c, db, threshold) ==
    IF c > Len(combos) THEN st
    ELSE LET combination == combos[c]
             utility == calculate_pattern_utility(db, combination)
         IN mine_combinations(
                IF combination \in st.processed_patterns THEN st
                ELSE [results |-> IF MeetsMinUtil(utility, threshold)
                                  THEN Append(st.results, <<combination, utility>>)
                                  ELSE st.results,
                      processed_patterns |-> st.processed_patterns \cup {combination}],
                combos, c + 1, db, threshold)

\* the sort key of EHMIN.run: (-utility, combination)
EhminKeyLess(x, y) == x[2] > y[2] \/ (x[2] = y[2] /\ TupleLess(x[1], y[1]))

RECURSIVE EhminInsert(_, _)
EhminInsert(sorted, x) ==
    IF sorted = <<>> THEN <<x>>
    ELSE IF EhminKeyLess(x, Head(sorted)) THEN <<x>> \o sorted
    ELSE <<Head(sorted)>> \o EhminInsert(Tail(sorted), x)

\* list.sort(key=lambda x: (-x[1], x[0])): a stable sort
RECURSIVE EhminSort(_, _)
EhminSort(sorted, rest) ==
    IF rest = <<>> THEN sorted
    ELSE EhminSort(EhminInsert(sorted, Head(rest)), Tail(rest))

\* the outer loop of mine_high_utility_patterns, from one length on
RECURSIVE mine_lengths(_, _, _, _, _)
mine_lengths(st, items, len, db, threshold) ==
    IF len > Len(items) THEN st
    ELSE mine_lengths(
             mine_combinations(st, generate_combinations(items, len), 1, db, threshold),
             items, len + 1, db, threshold)

\* EHMIN(db, threshold).run() as a function of its inputs
EhminRun(db, threshold) ==
    LET gl == prune_low_utility_items(
                  first_scan(load_external_utility(<<>>, db, 1), db, 1), db, 1)
        mined == mine_lengths([results |-> <<>>, processed_patterns |-> {}],
                              KeyList(gl), 1, db, threshold)
    IN EhminSort(<<>>, mined.results)

\* the fields of the classes that are not running
IdleEHMIN ==
    /\ global_lists = <<>>
    /\ results = <<>>
    /\ processed_patterns = {}
    /\ length = 0

IdleEMHUN ==
    /\ set_order = <<>>
    /\ min_utility = 0
    /\ high_utility_itemsets = <<>>
    /\ classes = [rho |-> {}, delta |-> {}, eta |-> {}]
    /\ secondary_X = {}
    /\ sorted_secondary = <<>>
    /\ sorted_eta = <<>>
    /\ primary_X = {}

IdleTKN ==
    /\ k = 0
    /\ ptwu = <<>>
    /\ secondary_items = <<>>
    /\ li_structure = <<>>
    /\ priority_queue = <<>>

IdleGA ==
    /\ population_size = 0
    /\ generations = 0
    /\ generation = 0
    /\ population = <<>>
    /\ unique_solutions = {}
    /\ top_solutions = <<>>
    /\ top_fitness = <<>>

InitEHMIN ==
    /\ algo = "EHMIN"
    /\ pc = "load_external_utility"
    /\ database \in Databases
    /\ min_util \in MinUtils
    /\ global_lists = <<>>
    /\ results = <<>>
    /\ processed_patterns = {}
    /\ length = 0
    /\ IdleEMHUN
    /\ IdleTKN
    /\ IdleGA
    /\ visited_itemsets = {}
    /\ stack = <<>>

EhminLoadExternalUtility ==
    /\ algo = "EHMIN" /\ pc = "load_external_utility"
    /\ global_lists' = load_external_utility(global_lists, database, 1)
    /\ pc' = "first_scan"
    /\ UNCHANGED <<notEhmin, algo, database, min_util, results, processed_patterns, length>>

EhminFirstScan ==
    /\ algo = "EHMIN" /\ pc = "first_scan"
    /\ global_lists' = first_scan(global_lists, database, 1)
    /\ pc' = "prune_low_utility_items"
    /\ UNCHANGED <<notEhmin, algo, database, min_util, results, processed_patterns, length>>

EhminPruneLowUtilityItems ==
    /\ algo = "EHMIN" /\ pc = "prune_low_utility_items"
    /\ global_lists' = prune_low_utility_items(global_lists, database, 1)
    /\ pc' = "mine_high_utility_patterns"
    /\ length' = 1
    /\ UNCHANGED <<notEhmin, algo, database, min_util, results, processed_patterns>>

\* one iteration of "for length in range(1, len(items) + 1)"
EhminMineLength ==
    /\ algo = "EHMIN" /\ pc = "mine_high_utility_patterns"
    /\ length <= Len(global_lists)
    /\ LET st == mine_combinations(
                     [results |-> results, processed_patterns |-> processed_patterns],
                     generate_combinations(KeyList(global_lists), length), 1,
                     database, min_util)
       IN /\ results' = st.results
          /\ processed_patterns' = st.processed_patterns
    /\ length' = length + 1
    /\ UNCHANGED <<notEhmin, algo, pc, database, min_util, global_lists>>

\* the loop is over; run() sorts the results and returns them
EhminSortAndReturn ==
    /\ algo = "EHMIN" /\ pc = "mine_high_utility_patterns"
    /\ length > Len(global_lists)
    /\ results' = EhminSort(<<>>, results)
    /\ pc' = "done"
    /\ UNCHANGED <<notEhmin, algo, database, min_util, global_lists, processed_patterns, length>>

NextEHMIN ==
    \/ EhminLoadExternalUtility
    \/ EhminFirstScan
    \/ EhminPruneLowUtilityItems
    \/ EhminMineLength
    \/ EhminSortAndReturn

SpecEHMIN == InitEHMIN /\ [][NextEHMIN]_vars

----------------------------------------------------------------------------
(* EMHUNAlgorithm (src/ehmun.py)                                           *)

SetOrders(S) ==
    {s \in [1..Cardinality(S) -> S] : \A i, j \in DOMAIN s : i # j => s[i] # s[j]}

\* "for item in <set>" / list(<set>): the members in the process's iteration order
IterationOrder(S) == SelectSeq(set_order, LAMBDA x : x \in S)

Sign(profit) == IF profit > 0 THEN 1 ELSE IF profit < 0 THEN 0 - 1 ELSE 0

\* item_signs[item] at the end of the first loop of classify_items
item_signs(db, item) ==
    UNION {{Sign(db[n].profit[i] * db[n].quantities[i]) :
               i \in {j \in DOMAIN db[n].items : db[n].items[j] = item}} :
           n \in DOMAIN db}

\* the keys of item_utilities: every item met in the first loop
item_utilities_keys(db) == UNION {Range(db[n].items) : n \in DOMAIN db}

classify_items(db) ==
    [rho   |-> {item \in item_utilities_keys(db) : item_signs(db, item) = {1}},
     delta |-> {item \in item_utilities_keys(db) : item_signs(db, item) = {1, 0 - 1}},
     eta   |-> {item \in item_utilities_keys(db) : item_signs(db, item) = {0 - 1}}]

\* mutant of calculate_RTWU: the "profit > 0" filter is lost
calculate_RTWU_AllProfits(db, item) ==
    SumSeq([n \in DOMAIN db |->
              IF item \in Range(db[n].items)
              THEN SumSeq([i \in DOMAIN db[n].items |->
                             db[n].profit[i] * db[n].quantities[i]])
              ELSE 0])

calculate_RTWU(db, item) ==
    SumSeq([n \in DOMAIN db |->
              IF item \in Range(db[n].items)
              THEN SumSeq([i \in DOMAIN db[n].items |->
                             IF db[n].profit[i] > 0
                             THEN db[n].profit[i] * db[n].quantities[i] ELSE 0])
              ELSE 0])

calculate_secondary(db, threshold, rho, delta, eta) ==
    {item \in rho \cup delta \cup eta : calculate_RTWU(db, item) >= threshold}

calculate_rru(z, transaction) ==
    SumSeq([i \in DOMAIN transaction.items |->
              IF transaction.items[i] # z /\ transaction.profit[i] > 0
              THEN transaction.profit[i] * transaction.quantities[i] ELSE 0])

calculate_RSU(db, X, z) ==
    SumSeq([n \in DOMAIN db |->
              IF (X \cup {z}) \subseteq Range(db[n].items)
              THEN LET t == db[n]
                       u_X == SumSeq([i \in DOMAIN t.items |->
                                        IF t.items[i] \in X
                                        THEN t.profit[i] * t.quantities[i] ELSE 0])
                       u_z == t.profit[IndexOf(t.items, z)]
                                * t.quantities[IndexOf(t.items, z)]
                   IN u_X + u_z + calculate_rru(z, t)
              ELSE 0])

calculate_primary(db, threshold, secondary) ==
    {item \in secondary : calculate_RSU(db, {}, item) >= threshold}

Swap(s, i, j) == [s EXCEPT ![i] = s[j], ![j] = s[i]]

\* the nested loops of sort_by_RTWU, from position (i, j) on
RECURSIVE sort_by_RTWU_loop(_, _, _, _)
sort_by_RTWU_loop(db, items_list, i, j) ==
    IF i > Len(items_list) THEN items_list
    ELSE IF j > Len(items_list) THEN sort_by_RTWU_loop(db, items_list, i + 1, i + 2)
    ELSE sort_by_RTWU_loop(
             db,
             IF calculate_RTWU(db, items_list[i]) < calculate_RTWU(db, items_list[j])
             THEN Swap(items_list, i, j) ELSE items_list,
             i, j + 1)

sort_by_RTWU(db, items) == sort_by_RTWU_loop(db, IterationOrder(items), 1, 2)

create_projected_database(db, itemset) ==
    LET kept == SelectSeq(db, LAMBDA t : \A item \in itemset : item \in Range(t.items))
        Strip(t) ==
            LET ix == SelectSeq([i \in DOMAIN t.items |-> i],
                                LAMBDA i : t.items[i] \notin itemset)
            IN [items      |-> [h \in DOMAIN ix |-> t.items[ix[h]]],
                quantities |-> [h \in DOMAIN ix |-> t.quantities[ix[h]]],
                profit     |-> [h \in DOMAIN ix |-> t.profit[ix[h]]]]
    IN [n \in DOMAIN kept |-> Strip(kept[n])]

calculate_utility(db, itemset) ==
    SumSeq([n \in DOMAIN db |->
              IF \A item \in itemset : item \in Range(db[n].items)
              THEN SumSeq([i \in DOMAIN db[n].items |->
                             IF db[n].items[i] \in itemset
                             THEN db[n].profit[i] * db[n].quantities[i] ELSE 0])
              ELSE 0])

\* the acceptance test of search and searchN
IsHighUtility(utility, threshold) == utility >= threshold /\ utility > 0

\* list.sort(key=lambda x: x[1], reverse=True): stable, descending by utility
RECURSIVE InsertByUtility(_, _)
InsertByUtility(sorted, x) ==
    IF sorted = <<>> THEN <<x>>
    ELSE IF x[2] > Head(sorted)[2] THEN <<x>> \o sorted
    ELSE <<Head(sorted)>> \o InsertByUtility(Tail(sorted), x)

RECURSIVE SortByUtility(_, _)
SortByUtility(sorted, rest) ==
    IF rest = <<>> THEN sorted
    ELSE SortByUtility(InsertByUtility(sorted, Head(rest)), Tail(rest))

SearchFrame(eta, X, primary, secondary) ==
    [fn |-> "search", eta |-> eta, X |-> X, todo |-> IterationOrder(primary),
     secondary_X |-> secondary, db_beta |-> <<>>]

SearchNFrame(eta, beta, db_beta) ==
    [fn |-> "searchN", eta |-> eta, X |-> beta, todo |-> IterationOrder(eta),
     secondary_X |-> {}, db_beta |-> db_beta]

InitEMHUN ==
    /\ algo = "EMHUN"
    /\ pc = "classify_items"
    /\ database \in Databases
    /\ set_order \in SetOrders(Items)
    /\ min_utility \in MinUtils
    /\ high_utility_itemsets = <<>>
    /\ visited_itemsets = {}
    /\ classes = [rho |-> {}, delta |-> {}, eta |-> {}]
    /\ secondary_X = {}
    /\ sorted_secondary = <<>>
    /\ sorted_eta = <<>>
    /\ primary_X = {}
    /\ stack = <<>>
    /\ min_util = 0
    /\ IdleEHMIN
    /\ IdleTKN
    /\ IdleGA

EmhunClassifyItems ==
    /\ algo = "EMHUN" /\ pc = "classify_items"
    /\ classes' = classify_items(database)
    /\ pc' = "calculate_secondary"
    /\ UNCHANGED <<notEmhun, commonVars, set_order, min_utility, high_utility_itemsets,
                   visited_itemsets, secondary_X, sorted_secondary, sorted_eta,
                   primary_X, stack>>

EmhunCalculateSecondary ==
    /\ algo = "EMHUN" /\ pc = "calculate_secondary"
    /\ secondary_X' = calculate_secondary(database, min_utility,
                                          classes.rho, classes.delta, classes.eta)
    /\ pc' = "sort_items"
    /\ UNCHANGED <<notEmhun, commonVars, set_order, min_utility, high_utility_itemsets,
                   visited_itemsets, classes, sorted_secondary, sorted_eta,
                   primary_X, stack>>

EmhunSortItems ==
    /\ algo = "EMHUN" /\ pc = "sort_items"
    /\ sorted_secondary' = sort_by_RTWU(database, secondary_X)
    /\ sorted_eta' = sort_by_RTWU(database, classes.eta)
    /\ pc' = "calculate_primary"
    /\ UNCHANGED <<notEmhun, commonVars, set_order, min_utility, high_utility_itemsets,
                   visited_itemsets, classes, secondary_X, primary_X, stack>>

\* primary_X = calculate_primary(secondary_X), then the call search(eta, X, ...)
EmhunCalculatePrimary ==
    /\ algo = "EMHUN" /\ pc = "calculate_primary"
    /\ primary_X' = calculate_primary(database, min_utility, secondary_X)
    /\ stack' = <<SearchFrame(classes.eta, {}, primary_X', secondary_X)>>
    /\ pc' = "search"
    /\ UNCHANGED <<notEmhun, commonVars, set_order, min_utility, high_utility_itemsets,
                   visited_itemsets, classes, secondary_X, sorted_secondary, sorted_eta>>

Top == stack[Len(stack)]
Below == SubSeq(stack, 1, Len(stack) - 1)

\* one iteration of "for item in primary_X" in search. The recursive calls it makes
\* are pushed so that searchN runs first and the nested search after it.
EmhunSearchItem ==
    /\ algo = "EMHUN" /\ pc = "search"
    /\ stack # <<>> /\ Top.fn = "search" /\ Top.todo # <<>>
    /\ LET item == Head(Top.todo)
           rest == [Top EXCEPT !.todo = Tail(@)]
           beta == Top.X \cup {item}
           db_beta == create_projected_database(database, beta)
           u_beta == calculate_utility(database, beta)
           new_secondary == Top.secondary_X \ {item}
           new_primary == calculate_primary(database, min_utility, new_secondary)
           nested == IF new_primary # {}
                     THEN <<SearchFrame(Top.eta, beta, new_primary, new_secondary)>>
                     ELSE <<>>
       IN IF beta \in visited_itemsets
          THEN /\ stack' = Append(Below, rest)
               /\ UNCHANGED <<visited_itemsets, high_utility_itemsets>>
          ELSE /\ visited_itemsets' = visited_itemsets \cup {beta}
               /\ IF IsHighUtility(u_beta, min_utility)
                  THEN /\ high_utility_itemsets' =
                              Append(high_utility_itemsets, <<beta, u_beta>>)
                       /\ stack' = Append(Below, rest) \o nested
                                     \o <<SearchNFrame(Top.eta, beta, db_beta)>>
                  ELSE /\ stack' = Append(Below, rest) \o nested
                       /\ UNCHANGED high_utility_itemsets
    /\ UNCHANGED <<notEmhun, commonVars, pc, set_order, min_utility, classes,
                   secondary_X, sorted_secondary, sorted_eta, primary_X>>

\* one iteration of "for item in eta" in searchN
EmhunSearchNItem ==
    /\ algo = "EMHUN" /\ pc = "search"
    /\ stack # <<>> /\ Top.fn = "searchN" /\ Top.todo # <<>>
    /\ LET item == Head(Top.todo)
           rest == [Top EXCEPT !.todo = Tail(@)]
           new_itemset == Top.X \cup {item}
           new_utility == calculate_utility(database, new_itemset)
           new_db_beta == create_projected_database(database, new_itemset)
       IN IF new_itemset \in visited_itemsets
          THEN /\ stack' = Append(Below, rest)
               /\ UNCHANGED <<visited_itemsets, high_utility_itemsets>>
          ELSE /\ visited_itemsets' = visited_itemsets \cup {new_itemset}
               /\ IF IsHighUtility(new_utility, min_utility)
                  THEN /\ high_utility_itemsets' =
                              Append(high_utility_itemsets, <<new_itemset, new_utility>>)
                       /\ stack' = Append(Below, rest)
                             \o <<SearchNFrame(Top.eta \ {item}, new_itemset, new_db_beta)>>
                  ELSE /\ stack' = Append(Below, rest)
                       /\ UNCHANGED high_utility_itemsets
    /\ UNCHANGED <<notEmhun, commonVars, pc, set_order, min_utility, classes,
                   secondary_X, sorted_secondary, sorted_eta, primary_X>>

\* a for loop of search or searchN is exhausted: the call returns
EmhunSearchReturn ==
    /\ algo = "EMHUN" /\ pc = "search"
    /\ stack # <<>> /\ Top.todo = <<>>
    /\ stack' = Below
    /\ UNCHANGED <<notEmhun, commonVars, pc, set_order, min_utility,
                   high_utility_itemsets, visited_itemsets, classes, secondary_X,
                   sorted_secondary, sorted_eta, primary_X>>

\* search has returned to run(), which sorts the itemsets and returns them
EmhunSortAndReturn ==
    /\ algo = "EMHUN" /\ pc = "search"
    /\ stack = <<>>
    /\ high_utility_itemsets' = SortByUtility(<<>>, high_utility_itemsets)
    /\ pc' = "done"
    /\ UNCHANGED <<notEmhun, commonVars, set_order, min_utility, visited_itemsets,
                   classes, secondary_X, sorted_secondary, sorted_eta, primary_X, stack>>

NextEMHUN ==
    \/ EmhunClassifyItems
    \/ EmhunCalculateSecondary
    \/ EmhunSortItems
    \/ EmhunCalculatePrimary
    \/ EmhunSearchItem
    \/ EmhunSearchNItem
    \/ EmhunSearchReturn
    \/ EmhunSortAndReturn

SpecEMHUN == InitEMHUN /\ [][NextEMHUN]_vars

----------------------------------------------------------------------------
(* TKN (src/tkn.py)                                                        *)

\* float('-inf') and the finite values of TKN.min_util
NegInf == [inf |-> TRUE, value |-> 0]
Finite(v) == [inf |-> FALSE, value |-> v]

\* mutant of GeqMinUtil: the acceptance test is lost
GeqMinUtil_Always(utility, m) == TRUE

\* utility >= self.min_util
GeqMinUtil(utility, m) == m.inf \/ utility >= m.value

\* max(self.min_util, v)
MaxMinUtilOf(m, v) == IF m.inf \/ v > m.value THEN Finite(v) ELSE m

DictKeys(d) == [i \in DOMAIN d |-> d[i].key]
DictKeySet(d) == {d[i].key : i \in DOMAIN d}
DictGet(d, key) == d[CHOOSE i \in DOMAIN d : d[i].key = key].value

\* d[key] += amount, inserting key with 0 first when it is missing
DictAdd(d, key, amount) ==
    IF key \in DictKeySet(d)
    THEN [i \in DOMAIN d |->
             IF d[i].key = key THEN [d[i] EXCEPT !.value = @ + amount] ELSE d[i]]
    ELSE Append(d, [key |-> key, value |-> amount])

\* d[key] = value
DictPut(d, key, value) ==
    IF key \in DictKeySet(d)
    THEN [i \in DOMAIN d |-> IF d[i].key = key THEN [d[i] EXCEPT !.value = value] ELSE d[i]]
    ELSE Append(d, [key |-> key, value |-> value])

transaction_sum(t) ==
    SumSeq([i \in 1..(IF Len(t.quantities) < Len(t.profit)
                      THEN Len(t.quantities) ELSE Len(t.profit)) |->
              IF t.profit[i] > 0 THEN t.quantities[i] * t.profit[i] ELSE 0])

RECURSIVE ptwu_transaction(_, _, _)
ptwu_transaction(d, t, i) ==
    IF i > Len(t.items) THEN d
    ELSE ptwu_transaction(DictAdd(d, t.items[i], transaction_sum(t)), t, i + 1)

RECURSIVE calculate_ptwu(_, _, _)
calculate_ptwu(d, db, n) ==
    IF n > Len(db) THEN d
    ELSE calculate_ptwu(ptwu_transaction(d, db[n], 1), db, n + 1)

prune_secondary_items(d, m) ==
    SelectSeq(DictKeys(d), LAMBDA item : GeqMinUtil(DictGet(d, item), m))

\* sorted(self.secondary_items, key=lambda x: self.ptwu[x]): stable, ascending
RECURSIVE InsertByPtwu(_, _, _)
InsertByPtwu(d, sorted, x) ==
    IF sorted = <<>> THEN <<x>>
    ELSE IF DictGet(d, x) < DictGet(d, Head(sorted)) THEN <<x>> \o sorted
    ELSE <<Head(sorted)>> \o InsertByPtwu(d, Tail(sorted), x)

RECURSIVE SortByPtwu(_, _, _)
SortByPtwu(d, sorted, rest) ==
    IF rest = <<>> THEN sorted
    ELSE SortByPtwu(d, InsertByPtwu(d, sorted, Head(rest)), Tail(rest))

\* the utility sum both build_li_structure and explore_candidates compute for a
\* tuple of items over a list of transactions
tuple_utility(transactions, subset) ==
    SumSeq([n \in DOMAIN transactions |->
              IF \A i \in DOMAIN subset : subset[i] \in Range(transactions[n].items)
              THEN SumSeq([i \in DOMAIN transactions[n].items |->
                             IF transactions[n].items[i] \in Range(subset)
                             THEN transactions[n].quantities[i] * transactions[n].profit[i]
                             ELSE 0])
              ELSE 0])

RECURSIVE build_li_loop(_, _, _, _, _)
build_li_loop(li, db, ordered_items, i, j) ==
    IF i > Len(ordered_items) THEN li
    ELSE IF j > Len(ordered_items) THEN build_li_loop(li, db, ordered_items, i + 1, i + 1)
    ELSE LET subset == SubSeq(ordered_items, i, j)
         IN build_li_loop(DictPut(li, subset, tuple_utility(db, subset)),
                          db, ordered_items, i, j + 1)

build_li_structure(li, db, secondary, d) ==
    build_li_loop(li, db, SortByPtwu(d, <<>>, secondary), 1, 1)

\* li_values after li_values.sort(reverse=True)
RECURSIVE InsertDescending(_, _)
InsertDescending(sorted, x) ==
    IF sorted = <<>> THEN <<x>>
    ELSE IF x > Head(sorted) THEN <<x>> \o sorted
    ELSE <<Head(sorted)>> \o InsertDescending(Tail(sorted), x)

RECURSIVE SortDescending(_, _)
SortDescending(sorted, rest) ==
    IF rest = <<>> THEN sorted
    ELSE SortDescending(InsertDescending(sorted, Head(rest)), Tail(rest))

\* s[i] of a Python list: i counts from 0, a negative i counts from the end
PyIndexOk(s, i) == (0 - Len(s)) <= i /\ i < Len(s)
PyIndex(s, i) == IF i >= 0 THEN s[i + 1] ELSE s[Len(s) + i + 1]

li_values_of(li) == SortDescending(<<>>, [i \in DOMAIN li |-> li[i].value])

\* li_values[self.k - 1] raises IndexError
raise_min_util_raises(li, kk) ==
    Len(li_values_of(li)) >= kk /\ ~PyIndexOk(li_values_of(li), kk - 1)

raise_min_util(m, li, kk) ==
    LET li_values == li_values_of(li)
    IN IF Len(li_values) >= kk THEN MaxMinUtilOf(m, PyIndex(li_values, kk - 1)) ELSE m

\* mutant of queue_update: pop(0) instead of pop(), the best entry is evicted
queue_update_EvictBest(pq, m, kk, sorted_itemset, utility) ==
    IF m.inf \/ utility >= m.value
    THEN LET appended == SortByUtility(<<>>, Append(pq, <<sorted_itemset, utility>>))
             kept == IF Len(appended) > kk THEN Tail(appended) ELSE appended
         IN [priority_queue |-> kept,
             min_util |-> IF Len(kept) = kk THEN Finite(kept[Len(kept)][2]) ELSE m]
    ELSE [priority_queue |-> pq, min_util |-> m]

\* the queue after append, sort and the pop of explore_candidates
queue_kept(pq, kk, sorted_itemset, utility) ==
    LET appended == SortByUtility(<<>>, Append(pq, <<sorted_itemset, utility>>))
    IN IF Len(appended) > kk THEN SubSeq(appended, 1, Len(appended) - 1) ELSE appended

\* self.priority_queue[-1] raises IndexError
queue_update_raises(pq, m, kk, sorted_itemset, utility) ==
    /\ GeqMinUtil(utility, m)
    /\ Len(queue_kept(pq, kk, sorted_itemset, utility)) = kk
    /\ ~PyIndexOk(queue_kept(pq, kk, sorted_itemset, utility), 0 - 1)

\* the priority-queue update of explore_candidates: [priority_queue, min_util]
queue_update(pq, m, kk, sorted_itemset, utility) ==
    IF GeqMinUtil(utility, m)
    THEN LET kept == queue_kept(pq, kk, sorted_itemset, utility)
         IN [priority_queue |-> kept,
             min_util |-> IF Len(kept) = kk /\ PyIndexOk(kept, 0 - 1)
                          THEN Finite(PyIndex(kept, 0 - 1)[2]) ELSE m]
    ELSE [priority_queue |-> pq, min_util |-> m]

\* mutant of MayExtend: every secondary item extends the current itemset
MayExtend_Always(current_itemset, item) == TRUE

\* the test guarding the recursive call of explore_candidates
MayExtend(current_itemset, item) ==
    /\ item \notin Range(current_itemset)
    /\ (current_itemset = <<>> \/ item > current_itemset[Len(current_itemset)])

\* mutant of project: the projection also strips the itemset's members from the
\* transactions it keeps, as create_projected_database does
project_Stripping(dataset_projection, new_itemset) ==
    create_projected_database(dataset_projection, Range(new_itemset))

project(dataset_projection, new_itemset) ==
    SelectSeq(dataset_projection,
              LAMBDA t : \A i \in DOMAIN new_itemset : new_itemset[i] \in Range(t.items))

\* a call of explore_candidates that has not run its first statement yet
ExploreFrame(current_itemset, dataset_projection) ==
    [current_itemset |-> current_itemset, dataset_projection |-> dataset_projection,
     entered |-> FALSE, utility |-> 0, idx |-> 0]

InitTKN ==
    /\ algo = "TKN"
    /\ pc = "calculate_ptwu"
    /\ database \in Databases
    /\ k \in Ks
    /\ min_util = NegInf
    /\ ptwu = <<>>
    /\ secondary_items = <<>>
    /\ li_structure = <<>>
    /\ priority_queue = <<>>
    /\ visited_itemsets = {}
    /\ stack = <<>>
    /\ IdleEHMIN
    /\ IdleEMHUN
    /\ IdleGA

TknCalculatePtwu ==
    /\ algo = "TKN" /\ pc = "calculate_ptwu"
    /\ ptwu' = calculate_ptwu(ptwu, database, 1)
    /\ pc' = "prune_secondary_items"
    /\ UNCHANGED <<notTkn, commonVars, k, min_util, secondary_items, li_structure,
                   priority_queue, visited_itemsets, stack>>

TknPruneSecondaryItems ==
    /\ algo = "TKN" /\ pc = "prune_secondary_items"
    /\ secondary_items' = prune_secondary_items(ptwu, min_util)
    /\ pc' = "build_li_structure"
    /\ UNCHANGED <<notTkn, commonVars, k, min_util, ptwu, li_structure,
                   priority_queue, visited_itemsets, stack>>

TknBuildLiStructure ==
    /\ algo = "TKN" /\ pc = "build_li_structure"
    /\ li_structure' = build_li_structure(li_structure, database, secondary_items, ptwu)
    /\ pc' = "raise_min_util"
    /\ UNCHANGED <<notTkn, commonVars, k, min_util, ptwu, secondary_items,
                   priority_queue, visited_itemsets, stack>>

\* raise_min_util(), then the call explore_candidates((), self.dataset); an
\* IndexError of raise_min_util leaves run() before the call
TknRaiseMinUtil ==
    /\ algo = "TKN" /\ pc = "raise_min_util"
    /\ IF raise_min_util_raises(li_structure, k)
       THEN /\ pc' = "IndexError"
            /\ UNCHANGED <<min_util, stack>>
       ELSE /\ min_util' = raise_min_util(min_util, li_structure, k)
            /\ stack' = <<ExploreFrame(<<>>, database)>>
            /\ pc' = "explore_candidates"
    /\ UNCHANGED <<notTkn, commonVars, k, ptwu, secondary_items, li_structure,
                   priority_queue, visited_itemsets>>

\* explore_candidates from its first statement to the start of its for loop
TknExploreEnter ==
    /\ algo = "TKN" /\ pc = "explore_candidates"
    /\ stack # <<>> /\ ~Top.entered
    /\ LET sorted_itemset == SortedTuple(Range(Top.current_itemset))
           utility == tuple_utility(Top.dataset_projection, sorted_itemset)
           upd == queue_update(priority_queue, min_util, k, sorted_itemset, utility)
       IN IF sorted_itemset \in visited_itemsets
          THEN /\ stack' = Below
               /\ UNCHANGED <<visited_itemsets, priority_queue, min_util, pc>>
          ELSE /\ visited_itemsets' = visited_itemsets \cup {sorted_itemset}
               /\ priority_queue' = upd.priority_queue
               /\ min_util' = upd.min_util
               /\ IF queue_update_raises(priority_queue, min_util, k,
                                         sorted_itemset, utility)
                  THEN /\ pc' = "IndexError"
                       /\ UNCHANGED stack
                  ELSE /\ stack' = Append(Below, [Top EXCEPT !.entered = TRUE,
                                                  !.utility = utility, !.idx = 1])
                       /\ UNCHANGED pc
    /\ UNCHANGED <<notTkn, commonVars, k, ptwu, secondary_items, li_structure>>

\* one iteration of "for item in self.secondary_items"
TknExploreItem ==
    /\ algo = "TKN" /\ pc = "explore_candidates"
    /\ stack # <<>> /\ Top.entered /\ Top.idx <= Len(secondary_items)
    /\ LET item == secondary_items[Top.idx]
           rest == [Top EXCEPT !.idx = @ + 1]
           new_itemset == Append(Top.current_itemset, item)
       IN IF MayExtend(Top.current_itemset, item)
          THEN stack' = Append(Below, rest) \o
                          <<ExploreFrame(new_itemset,
                                         project(Top.dataset_projection, new_itemset))>>
          ELSE stack' = Append(Below, rest)
    /\ UNCHANGED <<notTkn, commonVars, pc, k, min_util, ptwu, secondary_items,
                   li_structure, priority_queue, visited_itemsets>>

\* the for loop is exhausted: explore_candidates returns
TknExploreReturn ==
    /\ algo = "TKN" /\ pc = "explore_candidates"
    /\ stack # <<>> /\ Top.entered /\ Top.idx > Len(secondary_items)
    /\ stack' = Below
    /\ UNCHANGED <<notTkn, commonVars, pc, k, min_util, ptwu, secondary_items,
                   li_structure, priority_queue, visited_itemsets>>

\* the outermost explore_candidates has returned: run() returns the queue
TknReturn ==
    /\ algo = "TKN" /\ pc = "explore_candidates"
    /\ stack = <<>>
    /\ pc' = "done"
    /\ UNCHANGED <<notTkn, commonVars, k, min_util, ptwu, secondary_items,
                   li_structure, priority_queue, visited_itemsets, stack>>

NextTKN ==
    \/ TknCalculatePtwu
    \/ TknPruneSecondaryItems
    \/ TknBuildLiStructure
    \/ TknRaiseMinUtil
    \/ TknExploreEnter
    \/ TknExploreItem
    \/ TknExploreReturn
    \/ TknReturn

SpecTKN == InitTKN /\ [][NextTKN]_vars

\* TKN(dataset, k) constructed with k <= 0: __init__ stores k unchecked
InitTKNNonPositiveK ==
    /\ algo = "TKN"
    /\ pc = "calculate_ptwu"
    /\ database \in Databases
    /\ k \in NonPositiveKs
    /\ min_util = NegInf
    /\ ptwu = <<>>
    /\ secondary_items = <<>>
    /\ li_structure = <<>>
    /\ priority_queue = <<>>
    /\ visited_itemsets = {}
    /\ stack = <<>>
    /\ IdleEHMIN
    /\ IdleEMHUN
    /\ IdleGA

SpecTKNNonPositiveK == InitTKNNonPositiveK /\ [][NextTKN]_vars

----------------------------------------------------------------------------
(* tkhuim_ga (src/tkhuim_ga.py)                                            *)

calculate_tu(transaction) ==
    SumSeq([i \in 1..(IF Len(transaction.quantities) < Len(transaction.profit)
                      THEN Len(transaction.quantities) ELSE Len(transaction.profit)) |->
              transaction.quantities[i] * transaction.profit[i]])

\* sorted(transactions, key=calculate_tu, reverse=True): stable, descending
RECURSIVE InsertByTu(_, _)
InsertByTu(sorted, t) ==
    IF sorted = <<>> THEN <<t>>
    ELSE IF calculate_tu(t) > calculate_tu(Head(sorted)) THEN <<t>> \o sorted
    ELSE <<Head(sorted)>> \o InsertByTu(Tail(sorted), t)

RECURSIVE SortByTu(_, _)
SortByTu(sorted, rest) ==
    IF rest = <<>> THEN sorted
    ELSE SortByTu(InsertByTu(sorted, Head(rest)), Tail(rest))

\* lst[:n] of a Python list, n >= 0
Prefix(lst, n) == SubSeq(lst, 1, IF n < Len(lst) THEN n ELSE Len(lst))

initialize_population(transactions, size) ==
    LET sorted_transactions == SortByTu(<<>>, transactions)
        chosen == Prefix(sorted_transactions, size)
    IN [i \in DOMAIN chosen |-> Range(chosen[i].items)]

evaluate_fitness(solution, transactions) ==
    SumSeq([n \in DOMAIN transactions |->
              IF solution \subseteq Range(transactions[n].items)
              THEN SumSeq([i \in DOMAIN transactions[n].items |->
                             IF transactions[n].items[i] \in solution
                             THEN transactions[n].quantities[i] * transactions[n].profit[i]
                             ELSE 0])
              ELSE 0])

\* the pairs <<child1, child2>> crossover can return, one per outcome of its two
\* random.choice calls
crossover(parent1, parent2) ==
    IF parent1 # {} /\ parent2 # {}
    THEN {<<(parent1 \ {item_from_parent1}) \cup {item_from_parent2},
            (parent2 \ {item_from_parent2}) \cup {item_from_parent1}>> :
              item_from_parent1 \in parent1, item_from_parent2 \in parent2}
    ELSE {<<parent1, parent2>>}

\* the solutions mutate can return, one per outcome of its random draws, for a
\* mutation_rate strictly between 0 and 1 and a non-empty all_items
mutate(solution, all_items) ==
    LET removed == IF solution # {} THEN {solution \ {x} : x \in solution}
                   ELSE {solution}
    IN {solution} \cup removed \cup {r \cup {y} : r \in removed, y \in all_items}

\* the pairs <<parent1, parent2>> of population indices that
\* sorted(zip(fitness_values, population), reverse=True) can put first and second;
\* solutions of equal fitness are compared as sets by inclusion, which orders only
\* some of them, so every order of a fitness tie is allowed
parents(pop, transactions) ==
    {pr \in (DOMAIN pop) \X (DOMAIN pop) :
        /\ pr[1] # pr[2]
        /\ \A i \in DOMAIN pop :
              evaluate_fitness(pop[i], transactions)
                  <= evaluate_fitness(pop[pr[1]], transactions)
        /\ \A i \in DOMAIN pop \ {pr[1]} :
              evaluate_fitness(pop[i], transactions)
                  <= evaluate_fitness(pop[pr[2]], transactions)}

\* the lists sorted(unique_population, key=fitness, reverse=True)[:size] can be:
\* unique_population lists a Python set, whose iteration order is arbitrary
top_lists(unique, transactions, size) ==
    LET n == IF size < Cardinality(unique) THEN size ELSE Cardinality(unique)
    IN {lst \in [1..n -> unique] :
          /\ \A i, j \in 1..n : i < j => lst[i] # lst[j]
          /\ \A i, j \in 1..n :
                i < j => evaluate_fitness(lst[i], transactions)
                           >= evaluate_fitness(lst[j], transactions)
          /\ \A u \in unique \ Range(lst) :
                \A i \in 1..n : evaluate_fitness(u, transactions)
                                  <= evaluate_fitness(lst[i], transactions)}

InitGA ==
    /\ algo = "GA"
    /\ pc = "initialize_population"
    /\ database \in GaDatabases
    /\ population_size \in PopulationSizes
    /\ generations \in Generations
    /\ generation = 0
    /\ population = <<>>
    /\ unique_solutions = {}
    /\ top_solutions = <<>>
    /\ top_fitness = <<>>
    /\ min_util = 0
    /\ visited_itemsets = {}
    /\ stack = <<>>
    /\ IdleEHMIN
    /\ IdleEMHUN
    /\ IdleTKN

GaInitializePopulation ==
    /\ algo = "GA" /\ pc = "initialize_population"
    /\ population' = initialize_population(database, population_size)
    /\ pc' = "generation"
    /\ UNCHANGED <<notGa, commonVars, population_size, generations, generation,
                   unique_solutions, top_solutions, top_fitness>>

\* one iteration of "for generation in range(generations)"; sorted_population[0]
\* or sorted_population[1] raises IndexError on a population of fewer than two
GaGeneration ==
    /\ algo = "GA" /\ pc = "generation" /\ generation < generations
    /\ IF Len(population) < 2
       THEN /\ pc' = "IndexError"
            /\ UNCHANGED <<generation, population, unique_solutions>>
       ELSE \E pr \in parents(population, database) :
            \E children \in crossover(population[pr[1]], population[pr[2]]) :
            \E child1 \in mutate(children[1], ItemsOf(database)) :
            \E child2 \in mutate(children[2], ItemsOf(database)) :
                /\ population' = <<population[pr[1]], population[pr[2]], child1, child2>>
                /\ unique_solutions' = unique_solutions \cup Range(population')
                /\ generation' = generation + 1
                /\ UNCHANGED pc
    /\ UNCHANGED <<notGa, commonVars, population_size, generations, top_solutions,
                   top_fitness>>

\* the loop is over: the unique solutions are sorted, cut and returned
GaReturn ==
    /\ algo = "GA" /\ pc = "generation" /\ generation = generations
    /\ \E lst \in top_lists(unique_solutions, database, population_size) :
          /\ top_solutions' = lst
          /\ top_fitness' = [i \in DOMAIN lst |-> evaluate_fitness(lst[i], database)]
    /\ pc' = "done"
    /\ UNCHANGED <<notGa, commonVars, population_size, generations, generation,
                   population, unique_solutions>>

NextGA ==
    \/ GaInitializePopulation
    \/ GaGeneration
    \/ GaReturn

SpecGA == InitGA /\ [][NextGA]_vars

----------------------------------------------------------------------------
(* The three classes together, and the bound computations alone.           *)

Init == InitEHMIN \/ InitEMHUN \/ InitTKN

Next == NextEHMIN \/ NextEMHUN \/ NextTKN

Spec == Init /\ [][Next]_vars

InitBounds == InitEMHUN \/ InitTKN

NextBounds ==
    \/ EmhunClassifyItems
    \/ EmhunCalculateSecondary
    \/ TknCalculatePtwu
    \/ TknPruneSecondaryItems

SpecBounds == InitBounds /\ [][NextBounds]_vars

\* The two recursive searches, each run followed to its end.
NextSearch ==
    \/ EmhunClassifyItems
    \/ EmhunCalculateSecondary
    \/ EmhunSortItems
    \/ EmhunCalculatePrimary
    \/ EmhunSearchItem
    \/ EmhunSearchNItem
    \/ EmhunSearchReturn
    \/ EmhunSortAndReturn
    \/ TknCalculatePtwu
    \/ TknPruneSecondaryItems
    \/ TknBuildLiStructure
    \/ TknRaiseMinUtil
    \/ TknExploreEnter
    \/ TknExploreItem
    \/ TknExploreReturn
    \/ TknReturn

InitSearch == InitBounds /\ database \in SearchDatabases

\* run() has neither returned nor raised
Running == pc \notin {"done", "IndexError"}

\* run() is sequential code that nothing suspends: as long as it has neither
\* returned nor raised it takes its next step. This is WF_vars(NextSearch) with
\* ENABLED <<NextSearch>>_vars written as Running, which implies it: every other
\* value of pc is the guard of one action, and under "search" and
\* "explore_candidates" the guards on stack cover every stack.
SearchFairness == <>[]Running => []<><<NextSearch>>_vars

SpecSearch == InitSearch /\ [][NextSearch]_vars /\ SearchFairness

----------------------------------------------------------------------------
(* Properties.                                                             *)

\* what run() returns, as a list of <<set of items, utility>>
Returned ==
    CASE algo = "EHMIN" -> [i \in DOMAIN results |-> <<Range(results[i][1]), results[i][2]>>]
      [] algo = "EMHUN" -> high_utility_itemsets
      [] algo = "TKN" ->
            [i \in DOMAIN priority_queue |->
                <<Range(priority_queue[i][1]), priority_queue[i][2]>>]

ReturnedSet == Range(Returned)

ReturnedItemsets == {e[1] : e \in ReturnedSet}

\* C1: for every database (at most 10 distinct items) and threshold, the set of
\* (itemset, utility) pairs EMHUNAlgorithm.run returns equals the set EHMIN.run
\* returns on the same database and threshold.
C1_EmhunEqualsEhmin ==
    (algo = "EMHUN" /\ pc = "done") =>
        ReturnedSet = {<<Range(r[1]), r[2]>> : r \in Range(EhminRun(database, min_utility))}

\* the itemset occurs in at least one transaction
Occurs(db, Y) == \E n \in DOMAIN db : Y \subseteq Range(db[n].items)

\* C2: calculate_RSU(X, z) is at least the exact utility of every itemset Y that
\* contains X and z, for every itemset X and every item z outside X (stated for
\* the itemsets Y that occur in a transaction of the database).
C2_RsuIsUpperBound ==
    (algo = "EMHUN" /\ pc = "search") =>
        \A X \in SUBSET Items : \A z \in Items \ X : \A Y \in SUBSET Items :
            ((X \cup {z}) \subseteq Y /\ Occurs(database, Y)) =>
                calculate_RSU(database, X, z) >= ExactUtility(database, Y)

\* C3: the exact utility of a non-empty itemset Y never exceeds the
\* transaction-weighted bound of any item i of Y, as calculate_RTWU(i) computes
\* it and as calculate_ptwu stores it in ptwu[i].
C3_TwuIsUpperBound ==
    /\ (algo = "EMHUN" /\ pc = "sort_items") =>
          \A Y \in NonEmptyItemsets(database) : \A i \in Y :
              ExactUtility(database, Y) <= calculate_RTWU(database, i)
    /\ (algo = "TKN" /\ pc = "prune_secondary_items") =>
          \A Y \in NonEmptyItemsets(database) : \A i \in Y :
              ExactUtility(database, Y) <= DictGet(ptwu, i)

\* C3 witness: ptwu has been computed and bounds, tightly, an itemset of two
\* items one of which has a loss in the same transaction as a profit.
C3_Witness ==
    /\ algo = "TKN" /\ pc = "prune_secondary_items"
    /\ \E Y \in NonEmptyItemsets(database) : \E i \in Y :
          /\ Cardinality(Y) = 2
          /\ ExactUtility(database, Y) = DictGet(ptwu, i)
          /\ ExactUtility(database, Y) > 0
    /\ \E n \in DOMAIN database : \E a \in DOMAIN database[n].items :
          database[n].profit[a] < 0

\* C4: when TKN.run returns, the result has at most k entries, each with the exact
\* utility of its itemset; no absent non-empty itemset has a utility above the
\* smallest one in the result; and a result of fewer than k entries holds every
\* non-empty itemset.
C4_TopK ==
    (algo = "TKN" /\ pc = "done") =>
        /\ Len(priority_queue) <= k
        /\ \A e \in ReturnedSet : e[2] = ExactUtility(database, e[1])
        /\ \A Y \in NonEmptyItemsets(database) \ ReturnedItemsets :
              \A e \in ReturnedSet : ExactUtility(database, Y) <= e[2]
        /\ Len(priority_queue) < k =>
              NonEmptyItemsets(database) \subseteq ReturnedItemsets

\* C4 witness: the run returned a full queue from which an entry was evicted and
\* that leaves out an itemset of lower utility than its smallest entry.
C4_Witness ==
    /\ algo = "TKN" /\ pc = "done"
    /\ Len(priority_queue) = k
    /\ Cardinality(visited_itemsets) > k + 1
    /\ \E Y \in NonEmptyItemsets(database) \ ReturnedItemsets :
          \A e \in ReturnedSet : ExactUtility(database, Y) < e[2]
    /\ \E e \in ReturnedSet : Cardinality(e[1]) >= 2

\* C5: EHMIN.run returns exactly one entry for each non-empty subset Y of the
\* database's items whose exact utility is >= min_util, paired with that utility,
\* and nothing else.
C5_EhminExact ==
    (algo = "EHMIN" /\ pc = "done") =>
        /\ \A Y \in NonEmptyItemsets(database) :
              ExactUtility(database, Y) >= min_util =>
                  Cardinality({i \in DOMAIN results : Range(results[i][1]) = Y}) = 1
        /\ \A i \in DOMAIN results :
              /\ Range(results[i][1]) \in NonEmptyItemsets(database)
              /\ Len(results[i][1]) = Cardinality(Range(results[i][1]))
              /\ results[i][2] = ExactUtility(database, Range(results[i][1]))
              /\ results[i][2] >= min_util

\* C5 witness: a finished run that kept an itemset of two items whose utility is
\* exactly the threshold and rejected another itemset.
C5_Witness ==
    /\ algo = "EHMIN" /\ pc = "done"
    /\ \E i \in DOMAIN results : Len(results[i][1]) >= 2 /\ results[i][2] = min_util
    /\ \E Y \in NonEmptyItemsets(database) : Y \notin ReturnedItemsets
    /\ Len(database) = 2

\* m1 <= m2 for values of TKN.min_util
MinUtilLeq(m1, m2) == m1.inf \/ (~m2.inf /\ m1.value <= m2.value)

\* C6: during one TKN.run the threshold min_util never decreases.
C6_MinUtilNonDecreasing == [][algo = "TKN" => MinUtilLeq(min_util, min_util')]_vars

\* C6 witness: the search has raised min_util above the value raise_min_util
\* gave it from the LIU structure.
C6_Witness ==
    /\ algo = "TKN" /\ pc = "explore_candidates"
    /\ Len(li_structure) >= k
    /\ ~min_util.inf
    /\ min_util.value > raise_min_util(NegInf, li_structure, k).value

\* C7: the utility explore_candidates computes for an itemset from the projection
\* handed down to it equals the itemset's exact utility over the full dataset.
C7_ProjectionUtility ==
    algo = "TKN" =>
        \A f \in DOMAIN stack :
            stack[f].entered =>
                stack[f].utility =
                    ExactUtility(database, Range(stack[f].current_itemset))

\* C7 witness: a call for an itemset of two items, working on a projection that
\* dropped a transaction, has computed a non-zero utility.
C7_Witness ==
    /\ algo = "TKN" /\ stack # <<>>
    /\ Top.entered
    /\ Len(Top.current_itemset) = 2
    /\ Len(Top.dataset_projection) < Len(database)
    /\ Top.utility # 0

\* C8: on an empty database every strategy returns an empty result.
C8_EmptyDatabaseEmptyResult ==
    (pc = "done" /\ database = <<>>) => Returned = <<>>

\* the utilities quantity * profit of the occurrences of an item
OccurrenceUtilities(db, item) ==
    UNION {{db[n].quantities[i] * db[n].profit[i] :
               i \in {j \in DOMAIN db[n].items : db[n].items[j] = item}} :
           n \in DOMAIN db}

\* C9: classify_items puts every item of the database in exactly one class:
\* negative (eta) when no occurrence has a utility above zero, mixed (delta) when
\* it has occurrences above and below zero, positive (rho) otherwise.
C9_ClassifyPartition ==
    (algo = "EMHUN" /\ pc # "classify_items") =>
        \A item \in ItemsOf(database) :
            LET us == OccurrenceUtilities(database, item)
                pos == \E u \in us : u > 0
                neg == \E u \in us : u < 0
            IN /\ Cardinality({c \in {"rho", "delta", "eta"} : item \in classes[c]}) = 1
               /\ ~pos => item \in classes.eta
               /\ (pos /\ neg) => item \in classes.delta
               /\ (pos /\ ~neg) => item \in classes.rho

\* C10: the list run() returns is in descending order of utility, entries of
\* equal utility in lexical order of their sorted item sequences.
C10_ResultOrder ==
    pc = "done" =>
        \A i, j \in DOMAIN Returned :
            i < j =>
                /\ Returned[i][2] >= Returned[j][2]
                /\ Returned[i][2] = Returned[j][2] =>
                      ~TupleLess(SortedTuple(Returned[j][1]), SortedTuple(Returned[i][1]))

\* C11: a TKN run with k <= 0 is rejected with an InvalidParameter error at entry:
\* no bound computation, no threshold raising and no search step has happened,
\* and no result is produced, whatever point the run is at.
C11_NonPositiveKRejected ==
    (algo = "TKN" /\ k <= 0) =>
        /\ pc \in {"calculate_ptwu", "InvalidParameter"}
        /\ ptwu = <<>>
        /\ secondary_items = <<>>
        /\ li_structure = <<>>
        /\ min_util = NegInf
        /\ visited_itemsets = {}
        /\ priority_queue = <<>>
        /\ stack = <<>>

\* C12: at every invocation of search with current itemset X, every item z of the
\* primary set it iterates over has calculate_RSU(X, z) >= min_utility.
C12_PrimaryMeetsRsuAtNode ==
    algo = "EMHUN" =>
        \A d \in DOMAIN stack :
            stack[d].fn = "search" =>
                \A z \in Range(stack[d].todo) :
                    calculate_RSU(database, stack[d].X, z) >= min_utility

\* the nesting conditions of the recursive calls, over the calls that are pending
\* or running: a search frame directly above another was called by it, and so was
\* a searchN frame directly above a searchN frame
SearchNesting ==
    /\ algo = "EMHUN" =>
          \A d \in DOMAIN stack :
              /\ stack[d].X \subseteq secondary_X \cup classes.eta
              /\ stack[d].fn = "search" =>
                    /\ stack[d].secondary_X \cap stack[d].X = {}
                    /\ d > 1 =>
                          /\ stack[d].secondary_X \subseteq stack[d - 1].secondary_X
                          /\ stack[d].secondary_X # stack[d - 1].secondary_X
              /\ (d > 1 /\ stack[d].fn = "searchN" /\ stack[d - 1].fn = "searchN") =>
                    /\ stack[d].eta \subseteq stack[d - 1].eta
                    /\ Cardinality(stack[d].eta) < Cardinality(stack[d - 1].eta)
    /\ algo = "TKN" =>
          \A d \in DOMAIN stack :
              Len(stack[d].current_itemset) <= Len(secondary_items)

\* C13: the recursive searches terminate with a depth bounded by the number of
\* eligible items: every nested search call gets a secondary set strictly inside
\* its caller's and disjoint from its itemset, every nested searchN call a strictly
\* smaller negative-item set, TKN's explored itemset never has more members than
\* secondary_items, and run() reaches its return.
C13_SearchTerminates == []SearchNesting /\ <>(pc = "done")

\* a nested search call is pending while a searchN call nested in a searchN call
\* is running
C13_Witness ==
    /\ algo = "EMHUN" /\ pc = "search" /\ Len(stack) >= 4
    /\ stack[2].fn = "search"
    /\ stack[Len(stack)].fn = "searchN" /\ stack[Len(stack) - 1].fn = "searchN"

\* C15: every itemset in the list TKN.run returns is non-empty, for every database
\* and every k >= 1.
C15_NoEmptyItemsetReturned ==
    (algo = "TKN" /\ pc = "done" /\ k >= 1) =>
        \A i \in DOMAIN priority_queue : priority_queue[i][1] # <<>>

\* C14: for every database with at least one transaction, every population_size
\* >= 1, every generation count >= 1 and every outcome of the random choices,
\* tkhuim_ga completes, and what it returns is at most population_size itemsets,
\* pairwise distinct as sets, in non-increasing order of exact utility, each paired
\* with its exact utility, and no recorded unique solution left out has a strictly
\* greater utility than a returned one.
C14_GaReturnsTopUnique ==
    (algo = "GA" /\ Len(database) >= 1 /\ population_size >= 1 /\ generations >= 1) =>
        /\ pc # "IndexError"
        /\ pc = "done" =>
              /\ Len(top_solutions) <= population_size
              /\ Len(top_fitness) = Len(top_solutions)
              /\ \A i, j \in DOMAIN top_solutions :
                    i < j => /\ top_solutions[i] # top_solutions[j]
                             /\ ExactUtility(database, top_solutions[i])
                                  >= ExactUtility(database, top_solutions[j])
              /\ \A i \in DOMAIN top_solutions :
                    top_fitness[i] = ExactUtility(database, top_solutions[i])
              /\ \A u \in unique_solutions :
                    u \notin Range(top_solutions) =>
                        \A i \in DOMAIN top_solutions :
                            ExactUtility(database, u)
                                <= ExactUtility(database, top_solutions[i])

====
